---- MODULE Spec2Model ----
(***************************************************************************)
(* Model of src/main.py: the index document is fetched, the name -> URL    *)
(* mapping is extracted, every playlist is downloaded by the main thread   *)
(* and handed to a ThreadPoolExecutor(max_workers=5) whose workers run     *)
(* process_m3u_file: read the raw playlist, walk its lines, probe every    *)
(* URL line, and write the available / unavailable output files.           *)
(*                                                                         *)
(* Text is modelled structurally.  A display name is a sequence of one     *)
(* character strings.  A playlist is a sequence of lines, a line is a      *)
(* sequence of tokens ("#EXTINF" and "http" are the two prefixes the code  *)
(* tests with startswith, " " is whitespace).  The index document is a     *)
(* sequence of rows; a row is what re.findall yields for it: a record      *)
(* (name, url) or no match.                                                *)
(***************************************************************************)
EXTENDS Naturals, Sequences, FiniteSets

VARIABLES
    index_doc,        \* the remote index document (environment)
    lines_left,       \* playlist lines the environment may still serve
    faults_left,      \* failures the environment may still inject
    pc,               \* position of main()
    readme_content,   \* main: readme_content
    m3u_links,        \* main: m3u_links, a dict kept in insertion order
    idx,              \* main: position of the for loop in m3u_links.items()
    download_result,  \* per name: what download_m3u_file(name, url) did
    queue,            \* executor: work items submitted and not yet started
    task,             \* per name: the frame of process_m3u_file(name, path)
    raw_file,         \* m3u_files/<name>.m3u
    available_file,   \* processed/available_<name>.m3u
    unavailable_file, \* processed/unavailable_<name>.m3u
    probe_log,        \* per name: the log lines of check_url_availability
    error_log         \* per name: the log line of process_m3u_file's except

vars == <<index_doc, lines_left, faults_left, pc, readme_content, m3u_links,
          idx, download_result, queue, task, raw_file, available_file,
          unavailable_file, probe_log, error_log>>

----------------------------------------------------------------------------
(* Bounds of the model. *)

\* lines of the playlist in the single-playlist scenario
MaxLines == 3
\* records of the index document in the multi-playlist scenario
MaxRecords == 2
\* playlist lines served, in total, in the multi-playlist scenario
OrchLines == 1
\* failures injected in one run
MaxFaults == 1
\* playlists of the scenario that saturates the worker pool
PoolNames == 6
\* rows of the index document in the extraction scenario
MaxDocRows == 2
\* pieces of the display name in the normalizer runs
MaxPieces == 4

(* ThreadPoolExecutor(max_workers=5) *)
max_workers == 5

\* what fetch_readme returns: None, or the text (its rows)
None == [is_none |-> TRUE, rows |-> <<>>]
Text(rows) == [is_none |-> FALSE, rows |-> rows]

\* a file of the output folders: absent, or its lines
NoFile == [exists |-> FALSE, lines |-> <<>>]
File(lines) == [exists |-> TRUE, lines |-> lines]

\* a row of the index document the pattern does not match
NoMatch == [name |-> <<>>, url |-> "none"]

----------------------------------------------------------------------------
(* Generic sequence helpers. *)

RECURSIVE SeqsUpTo(_, _)
SeqsUpTo(S, n) ==
    IF n = 0 THEN {<<>>}
    ELSE LET shorter == SeqsUpTo(S, n - 1)
         IN  shorter \cup {Append(s, x) : s \in {t \in shorter : Len(t) = n - 1}, x \in S}

Count(s, e) == Cardinality({k \in DOMAIN s : s[k] = e})

----------------------------------------------------------------------------
(* clean_category_name *)

WordChars == {"a", "b", "n", "s", "p", "1", "_"}
SpaceChars == {" "}
NbspEntity == <<"&", "n", "b", "s", "p", ";">>

\* name.replace("&nbsp;", " "): leftmost, non-overlapping occurrences
RECURSIVE ReplaceNbsp(_)
ReplaceNbsp(s) ==
    IF s = <<>> THEN <<>>
    ELSE IF Len(s) >= Len(NbspEntity) /\ SubSeq(s, 1, Len(NbspEntity)) = NbspEntity
         THEN <<" ">> \o ReplaceNbsp(SubSeq(s, Len(NbspEntity) + 1, Len(s)))
         ELSE <<Head(s)>> \o ReplaceNbsp(Tail(s))

\* variant: [^A-Za-z0-9\s], which removes the underscore too
RemoveSpecialAndUnderscore(s) ==
    SelectSeq(s, LAMBDA c : c \in (WordChars \ {"_"}) \cup SpaceChars)

\* re.sub(r"[^\w\s]", "", s)
RemoveSpecial(s) == SelectSeq(s, LAMBDA c : c \in WordChars \cup SpaceChars)

\* str.strip() of a sequence whose whitespace elements are " "
RECURSIVE LStrip(_)
LStrip(s) == IF s # <<>> /\ Head(s) = " " THEN LStrip(Tail(s)) ELSE s

RECURSIVE RStrip(_)
RStrip(s) ==
    IF s # <<>> /\ s[Len(s)] = " " THEN RStrip(SubSeq(s, 1, Len(s) - 1)) ELSE s

Strip(s) == RStrip(LStrip(s))

\* re.sub(r"\s+", "_", s): every maximal run of whitespace becomes one "_"
RECURSIVE CollapseSpaces(_)
CollapseSpaces(s) ==
    IF s = <<>> THEN <<>>
    ELSE IF Head(s) = " "
         THEN <<"_">> \o CollapseSpaces(LStrip(s))
         ELSE <<Head(s)>> \o CollapseSpaces(Tail(s))

clean_category_name(name) ==
    CollapseSpaces(Strip(RemoveSpecial(ReplaceNbsp(name))))

----------------------------------------------------------------------------
(* extract_m3u_links_with_names: the dict comprehension over the matches, *)
(* in document order; a dict keeps the position of a key's first insert   *)
(* and the value of its last.                                              *)

Matches(doc) == SelectSeq(doc, LAMBDA row : row # NoMatch)

DictKeys(d) == {d[k].name : k \in DOMAIN d}

\* variant: the first URL of a name is kept
DictSetKeepFirst(d, name, url) ==
    IF name \in DictKeys(d) THEN d ELSE Append(d, [name |-> name, url |-> url])

\* variant: a list of pairs, one per record
DictSetAppend(d, name, url) == Append(d, [name |-> name, url |-> url])

DictSet(d, name, url) ==
    IF name \in DictKeys(d)
    THEN [k \in DOMAIN d |-> IF d[k].name = name THEN [name |-> name, url |-> url] ELSE d[k]]
    ELSE Append(d, [name |-> name, url |-> url])

RECURSIVE BuildDict(_, _)
BuildDict(matches, d) ==
    IF matches = <<>> THEN d
    ELSE BuildDict(Tail(matches),
                   DictSet(d, clean_category_name(Head(matches).name), Head(matches).url))

extract_m3u_links_with_names(doc) == BuildDict(Matches(doc), <<>>)

----------------------------------------------------------------------------
(* The inputs. *)

RowA == [name |-> <<"a">>, url |-> "u1"]
RowB == [name |-> <<"b", " ", "1">>, url |-> "u2"]
RowC == [name |-> <<"&", "n", "b", "s", "p", ";", "s">>, url |-> "u3"]
\* normalizes to the name of RowA
RowA2 == [name |-> <<"a", "!">>, url |-> "u2"]
\* normalizes to the empty name
RowE == [name |-> <<"!", " ">>, url |-> "u3"]

\* the k-th row of a document of k rows with pairwise distinct names
PoolRow(k) == [name |-> [j \in 1..k |-> "a"], url |-> "u0"]

\* the k-th row of the documents of the multi-playlist scenario
OrchRow(k) == IF k = 1 THEN RowB ELSE IF k = 2 THEN RowC ELSE PoolRow(k)

ExtractRows == {RowA, RowA2, RowB, RowE, NoMatch}

MetaA == <<"#EXTINF", "x">>
MetaB == <<"#EXTINF", "y">>
UrlA == <<"http", "x">>
UrlB == <<" ", "http", "y", " ">>
UrlOk == <<"http", "z">>
Other == <<" ">>

LineSet == {MetaA, MetaB, UrlA, UrlB, Other}

Playlists(n) == SeqsUpTo(LineSet, n)

(* The servers.  The playlist URL "u1" serves any playlist over LineSet,   *)
(* "u0" the one-line playlist UrlOk, whose server answers every probe with *)
(* status 200, and the other URLs any playlist of metadata and URL lines;  *)
(* every other probed server answers anything (Responses, below).          *)
Served(url, n) ==
    IF url = "u1" THEN Playlists(n)
    ELSE IF url = "u0" THEN (IF n > 0 THEN {<<UrlOk>>} ELSE {<<>>})
    ELSE SeqsUpTo({MetaA, UrlA}, n)

(* The runs explored: one playlist of up to MaxLines lines; up to          *)
(* MaxRecords playlists sharing OrchLines lines; PoolNames playlists of    *)
(* one URL line (more than the pool has workers); the documents of up to   *)
(* MaxDocRows rows, with repeated and empty names, and empty playlists.    *)
Scenarios ==
    {[doc |-> <<RowA>>, lines |-> MaxLines, faults |-> MaxFaults]}
    \cup {[doc |-> [j \in 1..k |-> OrchRow(j)], lines |-> OrchLines, faults |-> MaxFaults] :
              k \in 0..MaxRecords}
    \cup {[doc |-> [k \in 1..PoolNames |-> PoolRow(k)], lines |-> PoolNames, faults |-> 0]}
    \cup {[doc |-> d, lines |-> 0, faults |-> 0] : d \in SeqsUpTo(ExtractRows, MaxDocRows)}

AllNames ==
    UNION {{clean_category_name(s.doc[k].name) : k \in DOMAIN s.doc} : s \in Scenarios}

----------------------------------------------------------------------------
(* process_m3u_file: the pieces of the loop over the lines. *)

StartsWith(line, prefix) ==
    Len(line) >= Len(prefix) /\ SubSeq(line, 1, Len(prefix)) = prefix

IsMetadata(line) == StartsWith(line, <<"#EXTINF">>)

IsUrl(line) == StartsWith(line, <<"http">>)

\* variant: a pending metadata line is not overwritten by the next one
NextMetadataKeepFirst(line, current_metadata) ==
    IF IsMetadata(line) /\ current_metadata = <<>> THEN line ELSE current_metadata

\* current_metadata after the line has been handled
NextMetadata(line, current_metadata) ==
    IF IsMetadata(line) THEN line ELSE current_metadata

\* f"{current_metadata}\n{line}": two lines of the output file
FormatEntry(current_metadata, line) == <<current_metadata, line>>

\* variant: an entry already in the list is not appended again
AppendLinkOnce(links, entry) ==
    IF \E k \in DOMAIN links : links[k] = entry THEN links ELSE Append(links, entry)

\* variant: the entry is put in front
PrependLink(links, entry) == <<entry>> \o links

\* links.append(entry)
AppendLink(links, entry) == Append(links, entry)

\* "\n".join(links), as the lines of the file written
RECURSIVE JoinLinks(_)
JoinLinks(links) ==
    IF links = <<>> THEN <<>> ELSE Head(links) \o JoinLinks(Tail(links))

(* check_url_availability: what requests.head did is the input.  A status  *)
(* of 200 returns True, any other status and any requests.RequestException *)
(* return False; an exception of another class is not caught there.        *)
ProbeOutcomes == {"200", "other_status", "request_exception", "other_exception"}

ProbeRaises(outcome) == outcome \notin {"200", "other_status", "request_exception"}

\* what the server of a probed URL may do
Responses(line) == IF line = UrlOk THEN {"200"} ELSE ProbeOutcomes

\* variant: every completed response counts as available
check_any_status(outcome) == outcome \in {"200", "other_status"}

check_url_availability(outcome) == outcome = "200"

IdleFrame ==
    [pc |-> "none", lines |-> <<>>, i |-> 0, current_metadata |-> <<>>,
     available_links |-> <<>>, unavailable_links |-> <<>>]

\* the frame of a call that has returned
Returned(state) == [IdleFrame EXCEPT !.pc = state]

Running == {n \in AllNames : task[n].pc \in {"open", "loop", "write_available", "write_unavailable"}}

Finished == {n \in AllNames : task[n].pc \in {"done", "failed"}}

Submitted == {n \in AllNames : task[n].pc # "none"}

\* variant: a thread per work item
WorkerAlwaysFree == TRUE

\* variant: a pool of one worker more
WorkerFreeOneMore == Cardinality(Running) <= max_workers

\* variant: a pool without a worker thread
NoWorkerFree == FALSE

\* a worker thread is free to take the next work item
WorkerFree == Cardinality(Running) < max_workers

\* variant: shutdown(wait=False)
NoWait == TRUE

\* variant: the wait returns only when no work item has failed
AllWorkSucceeded ==
    queue = <<>> /\ \A n \in AllNames : task[n].pc \in {"none", "done"}

\* ThreadPoolExecutor.__exit__ -> shutdown(wait=True): returns once every
\* work item has run
AllWorkDone == queue = <<>> /\ Running = {}

----------------------------------------------------------------------------
Init ==
    /\ \E s \in Scenarios :
          /\ index_doc = s.doc
          /\ lines_left = s.lines
          /\ faults_left = s.faults
    /\ pc = "start"
    /\ readme_content = None
    /\ m3u_links = <<>>
    /\ idx = 0
    /\ download_result = [n \in AllNames |-> "none"]
    /\ queue = <<>>
    /\ task = [n \in AllNames |-> IdleFrame]
    /\ raw_file = [n \in AllNames |-> NoFile]
    /\ available_file = [n \in AllNames |-> NoFile]
    /\ unavailable_file = [n \in AllNames |-> NoFile]
    /\ probe_log = [n \in AllNames |-> <<>>]
    /\ error_log = [n \in AllNames |-> "none"]

----------------------------------------------------------------------------
(* main() *)

\* fetch_readme and the test of its result (lines 137-140)
FetchReadme ==
    /\ pc = "start"
    /\ \/ /\ readme_content' = Text(index_doc)
          /\ pc' = IF index_doc = <<>> THEN "exit_fetch_failed" ELSE "extract"
          /\ UNCHANGED faults_left
       \/ /\ faults_left > 0
          /\ faults_left' = faults_left - 1
          /\ readme_content' = None
          /\ pc' = "exit_fetch_failed"
    /\ UNCHANGED <<index_doc, lines_left, m3u_links, idx, download_result, queue,
                   task, raw_file, available_file, unavailable_file, probe_log,
                   error_log>>

\* variant: no test of the result; the loop runs over what was extracted
ExtractNoTest ==
    /\ pc = "extract"
    /\ m3u_links' = extract_m3u_links_with_names(readme_content.rows)
    /\ IF m3u_links' = <<>>
       THEN pc' = "join" /\ idx' = idx
       ELSE pc' = "download" /\ idx' = 1
    /\ UNCHANGED <<index_doc, lines_left, faults_left, readme_content,
                   download_result, queue, task, raw_file, available_file,
                   unavailable_file, probe_log, error_log>>

\* extract_m3u_links_with_names and the test of its result (lines 143-146)
Extract ==
    /\ pc = "extract"
    /\ m3u_links' = extract_m3u_links_with_names(readme_content.rows)
    /\ IF m3u_links' = <<>>
       THEN pc' = "exit_no_links" /\ idx' = idx
       ELSE pc' = "download" /\ idx' = 1
    /\ UNCHANGED <<index_doc, lines_left, faults_left, readme_content,
                   download_result, queue, task, raw_file, available_file,
                   unavailable_file, probe_log, error_log>>

\* the for loop moves to its next item, or the with block is left
NextItem ==
    IF idx < Len(m3u_links)
    THEN pc' = "download" /\ idx' = idx + 1
    ELSE pc' = "join" /\ idx' = idx

(* What a file.write(text) that raised has left in the file: nothing, or   *)
(* the text up to some point short of its end (whole lines, each with its  *)
(* newline, and the beginning of the next line, which may be empty).       *)
Partial(text) ==
    ({<<>>} \cup UNION {{SubSeq(text, 1, k) \o <<SubSeq(text[k + 1], 1, j)>> :
                            j \in 0..Len(text[k + 1])} : k \in 0..(Len(text) - 1)})
        \ {text, << <<>> >>}

\* the file after an open(..., "w") and write that raised: as it was when
\* open raised, else what the write left
AfterFailedWrite(file, text) == {file} \cup {File(part) : part \in Partial(text)}

\* variant: the task is submitted whatever the download returned
SubmitsAlways(result) == TRUE

\* if m3u_file: (line 152)
SubmitsAfter(result) == result = "saved"

\* download_m3u_file(name, m3u_link) (line 151)
Download ==
    /\ pc = "download"
    /\ LET name == m3u_links[idx].name IN
       \/ \* the response is stored: the filename is returned
          \E text \in Served(m3u_links[idx].url, lines_left) :
             /\ raw_file' = [raw_file EXCEPT ![name] = File(text)]
             /\ lines_left' = lines_left - Len(text)
             /\ download_result' = [download_result EXCEPT ![name] = "saved"]
             /\ IF SubmitsAfter("saved") THEN pc' = "submit" /\ idx' = idx ELSE NextItem
             /\ UNCHANGED faults_left
       \/ \* requests.RequestException: caught, None is returned, no submit
          /\ faults_left > 0
          /\ faults_left' = faults_left - 1
          /\ download_result' = [download_result EXCEPT ![name] = "failed"]
          /\ IF SubmitsAfter("failed") THEN pc' = "submit" /\ idx' = idx ELSE NextItem
          /\ UNCHANGED <<raw_file, lines_left>>
       \/ \* OSError from open() or file.write(): not caught by the function
          \* nor by main; the with block is left by the exception
          /\ faults_left > 0
          /\ faults_left' = faults_left - 1
          /\ download_result' = [download_result EXCEPT ![name] = "raised"]
          /\ \E text \in Served(m3u_links[idx].url, lines_left) :
             \E content \in AfterFailedWrite(raw_file[name], text) :
                raw_file' = [raw_file EXCEPT ![name] = content]
          /\ pc' = "join_raised"
          /\ UNCHANGED <<idx, lines_left>>
    /\ UNCHANGED <<index_doc, readme_content, m3u_links, queue, task,
                   available_file, unavailable_file, probe_log, error_log>>

\* executor.submit(process_m3u_file, name, m3u_file) (lines 152-153)
Submit ==
    /\ pc = "submit"
    /\ LET name == m3u_links[idx].name IN
       /\ queue' = Append(queue, name)
       /\ task' = [task EXCEPT ![name].pc = "queued"]
    /\ NextItem
    /\ UNCHANGED <<index_doc, lines_left, faults_left, readme_content, m3u_links,
                   download_result, raw_file, available_file, unavailable_file,
                   probe_log, error_log>>

\* leaving the with block waits for the pool, then line 155 or the exception
ExecutorExit ==
    /\ pc \in {"join", "join_raised"}
    /\ AllWorkDone
    /\ pc' = IF pc = "join" THEN "done" ELSE "crashed"
    /\ UNCHANGED <<index_doc, lines_left, faults_left, readme_content, m3u_links,
                   idx, download_result, queue, task, raw_file, available_file,
                   unavailable_file, probe_log, error_log>>

----------------------------------------------------------------------------
(* The worker threads: process_m3u_file(name, file_path) *)

\* a worker takes the oldest work item
WorkerStart(n) ==
    /\ queue # <<>>
    /\ n = Head(queue)
    /\ WorkerFree
    /\ queue' = Tail(queue)
    /\ task' = [task EXCEPT ![n].pc = "open"]
    /\ UNCHANGED <<index_doc, lines_left, faults_left, pc, readme_content,
                   m3u_links, idx, download_result, raw_file, available_file,
                   unavailable_file, probe_log, error_log>>

\* the task leaves through except Exception (lines 128-129)
Fails(n, cause) ==
    /\ faults_left > 0
    /\ faults_left' = faults_left - 1
    /\ task' = [task EXCEPT ![n] = Returned("failed")]
    /\ error_log' = [error_log EXCEPT ![n] = cause]

\* open(file_path) and file.readlines() (lines 101-104)
ReadFile(n) ==
    /\ task[n].pc = "open"
    /\ \/ /\ task' = [task EXCEPT ![n].lines = raw_file[n].lines,
                                  ![n].i = 1,
                                  ![n].current_metadata = <<>>,
                                  ![n].pc = IF raw_file[n].lines = <<>>
                                            THEN "write_available" ELSE "loop"]
          /\ UNCHANGED <<faults_left, error_log>>
       \/ Fails(n, "read")
    /\ UNCHANGED <<index_doc, lines_left, pc, readme_content, m3u_links, idx,
                   download_result, queue, raw_file, available_file,
                   unavailable_file, probe_log>>

\* variant: the loop is left after its first pass
AfterLineEarly(t) == "write_available"

\* for line in lines: the next pass, or the end of the loop
AfterLine(t) == IF t.i < Len(t.lines) THEN "loop" ELSE "write_available"

\* one pass of the loop body (lines 105-114)
LoopStep(n) ==
    /\ task[n].pc = "loop"
    /\ LET t == task[n]
           line == Strip(t.lines[t.i])
           after == AfterLine(t)
       IN
       IF IsUrl(line) /\ ~IsMetadata(line)
       THEN \E outcome \in Responses(line) :
               IF ProbeRaises(outcome)
               THEN /\ Fails(n, "probe")
                    /\ UNCHANGED probe_log
               ELSE LET entry == FormatEntry(t.current_metadata, line) IN
                    /\ probe_log' = [probe_log EXCEPT ![n] =
                                        Append(@, [url |-> line, outcome |-> outcome])]
                    /\ task' = [task EXCEPT
                          ![n].available_links =
                              IF check_url_availability(outcome)
                              THEN AppendLink(@, entry) ELSE @,
                          ![n].unavailable_links =
                              IF check_url_availability(outcome)
                              THEN @ ELSE AppendLink(@, entry),
                          ![n].i = t.i + 1,
                          ![n].pc = after]
                    /\ UNCHANGED <<faults_left, error_log>>
       ELSE /\ task' = [task EXCEPT
                  ![n].current_metadata = NextMetadata(line, @),
                  ![n].i = t.i + 1,
                  ![n].pc = after]
            /\ UNCHANGED <<faults_left, error_log, probe_log>>
    /\ UNCHANGED <<index_doc, lines_left, pc, readme_content, m3u_links, idx,
                   download_result, queue, raw_file, available_file,
                   unavailable_file>>

\* lines 120-122
WriteAvailable(n) ==
    /\ task[n].pc = "write_available"
    /\ \/ /\ available_file' = [available_file EXCEPT ![n] = File(JoinLinks(task[n].available_links))]
          /\ task' = [task EXCEPT ![n].pc = "write_unavailable"]
          /\ UNCHANGED <<faults_left, error_log>>
       \/ /\ Fails(n, "write_available")
          /\ \E content \in AfterFailedWrite(available_file[n],
                                               JoinLinks(task[n].available_links)) :
                available_file' = [available_file EXCEPT ![n] = content]
    /\ UNCHANGED <<index_doc, lines_left, pc, readme_content, m3u_links, idx,
                   download_result, queue, raw_file, unavailable_file, probe_log>>

\* lines 124-126, and the return
WriteUnavailable(n) ==
    /\ task[n].pc = "write_unavailable"
    /\ \/ /\ unavailable_file' = [unavailable_file EXCEPT ![n] = File(JoinLinks(task[n].unavailable_links))]
          /\ task' = [task EXCEPT ![n] = Returned("done")]
          /\ UNCHANGED <<faults_left, error_log>>
       \/ /\ Fails(n, "write_unavailable")
          /\ \E content \in AfterFailedWrite(unavailable_file[n],
                                               JoinLinks(task[n].unavailable_links)) :
                unavailable_file' = [unavailable_file EXCEPT ![n] = content]
    /\ UNCHANGED <<index_doc, lines_left, pc, readme_content, m3u_links, idx,
                   download_result, queue, raw_file, available_file, probe_log>>

Worker ==
    \E n \in AllNames :
        \/ WorkerStart(n)
        \/ ReadFile(n)
        \/ LoopStep(n)
        \/ WriteAvailable(n)
        \/ WriteUnavailable(n)

Next ==
    \/ FetchReadme
    \/ Extract
    \/ Download
    \/ Submit
    \/ ExecutorExit
    \/ Worker

Spec == Init /\ [][Next]_vars

----------------------------------------------------------------------------
(* What the claims speak of. *)

\* the entries of a written output file: its lines, two by two
EntriesOf(file) ==
    [k \in 1..(Len(file.lines) \div 2) |-> <<file.lines[2 * k - 1], file.lines[2 * k]>>]

\* the positions of the URL lines of a playlist, ascending
UrlPositions(lines) ==
    SelectSeq([j \in 1..Len(lines) |-> j], LAMBDA j : IsUrl(Strip(lines[j])))

MetadataPositions(lines) == {j \in 1..Len(lines) : IsMetadata(Strip(lines[j]))}

\* the most recent metadata line before position j, the empty string if none
MetadataBefore(lines, j) ==
    LET before == {k \in MetadataPositions(lines) : k < j} IN
    IF before = {} THEN <<>>
    ELSE Strip(lines[CHOOSE k \in before : \A h \in before : h <= k])

\* one entry per URL line, in input order, with the most recent metadata
ExpectedEntries(lines) ==
    LET pos == UrlPositions(lines) IN
    [k \in 1..Len(pos) |-> <<MetadataBefore(lines, pos[k]), Strip(lines[pos[k]])>>]

\* tasks whose partitions can be read: in the frame, or in the files
Active == {n \in AllNames : task[n].pc \in {"loop", "write_available", "write_unavailable", "done"}}

AvailableOf(n) ==
    IF task[n].pc = "done" THEN EntriesOf(available_file[n]) ELSE task[n].available_links

UnavailableOf(n) ==
    IF task[n].pc = "done" THEN EntriesOf(unavailable_file[n]) ELSE task[n].unavailable_links

\* the lines of the playlist the task has handled
Handled(n) ==
    IF task[n].pc = "loop"
    THEN SubSeq(raw_file[n].lines, 1, task[n].i - 1)
    ELSE raw_file[n].lines

\* the entries in the order they were emitted: the two partitions merged
\* back along the logged probe results
RECURSIVE Merge(_, _, _)
Merge(log, avail, unavail) ==
    IF log = <<>> THEN <<>>
    ELSE IF Head(log).outcome = "200"
         THEN IF avail = <<>> THEN <<>>
              ELSE <<Head(avail)>> \o Merge(Tail(log), Tail(avail), unavail)
         ELSE IF unavail = <<>> THEN <<>>
              ELSE <<Head(unavail)>> \o Merge(Tail(log), avail, Tail(unavail))

Emitted(n) == Merge(probe_log[n], AvailableOf(n), UnavailableOf(n))

RECURSIVE IsSubsequence(_, _)
IsSubsequence(a, b) ==
    IF a = <<>> THEN TRUE
    ELSE IF b = <<>> THEN FALSE
    ELSE IF Head(a) = Head(b) THEN IsSubsequence(Tail(a), Tail(b))
    ELSE IsSubsequence(a, Tail(b))

Range(s) == {s[k] : k \in DOMAIN s}

\* no step of main and no step of a worker is possible
MainCanStep ==
    \/ pc \in {"start", "extract", "download", "submit"}
    \/ pc \in {"join", "join_raised"} /\ AllWorkDone

WorkerCanStep == Running # {} \/ (queue # <<>> /\ WorkerFree)

Terminated == ~MainCanStep /\ ~WorkerCanStep

\* the two predicates above are the enabling condition of Next
TerminatedIsDeadlock == Terminated <=> ~ENABLED Next

----------------------------------------------------------------------------
(* C1: for every playlist whose task has persisted its report, the entries *)
(* of the available file and of the unavailable file are together exactly  *)
(* the entries of the playlist: each as often as the playlist has it, and  *)
(* nothing else.                                                           *)
C1_PartitionComplete ==
    \A n \in AllNames :
        task[n].pc = "done" =>
            LET a == EntriesOf(available_file[n])
                u == EntriesOf(unavailable_file[n])
                parsed == ExpectedEntries(raw_file[n].lines)
            IN  /\ Len(available_file[n].lines) = 2 * Len(a)
                /\ Len(unavailable_file[n].lines) = 2 * Len(u)
                /\ \A e \in Range(a) \cup Range(u) \cup Range(parsed) :
                       Count(a, e) + Count(u, e) = Count(parsed, e)

\* a report with the same entry twice and both partitions in use
C1_Witness ==
    \E n \in AllNames :
        /\ task[n].pc = "done"
        /\ EntriesOf(available_file[n]) # <<>>
        /\ EntriesOf(unavailable_file[n]) # <<>>
        /\ \E e \in Range(ExpectedEntries(raw_file[n].lines)) :
               Count(ExpectedEntries(raw_file[n].lines), e) = 2

(* C2: when the download of one name fails, whatever the cause, the run    *)
(* still attempts every name of the mapping, every stored playlist gets    *)
(* its task run to its end, and main reaches its last line.                *)
C2_DownloadFailureIsLocal ==
    (pc \in {"done", "crashed"} /\ \E n \in AllNames : download_result[n] \in {"failed", "raised"})
        => /\ pc = "done"
           /\ \A m \in DictKeys(m3u_links) :
                  /\ download_result[m] # "none"
                  /\ download_result[m] = "saved" => task[m].pc \in {"done", "failed"}

(* C3: at most max_workers tasks are executing at any time.                *)
C3_PoolBound == Cardinality(Running) <= max_workers

\* the pool is full and a work item waits
C3_Witness == Cardinality(Running) = max_workers /\ queue # <<>>

(* C4: when main declares the run complete, every submitted task has       *)
(* finished, by persisting its report or by failing: none is queued or     *)
(* running.                                                                *)
C4_CompleteAfterAllTasks ==
    pc = "done" =>
        /\ queue = <<>>
        /\ Running = {}
        /\ \A n \in DictKeys(m3u_links) :
               download_result[n] = "saved" => task[n].pc \in {"done", "failed"}

\* the run is complete after one task persisted and another failed
C4_Witness ==
    /\ pc = "done"
    /\ \E n \in AllNames : task[n].pc = "done"
    /\ \E n \in AllNames : task[n].pc = "failed"

(* C5: a failure inside one task stays inside it.  The step in which a     *)
(* task fails changes nothing of main, of the queue or of another task;    *)
(* and when the run has stopped every submitted task has ended, a task     *)
(* without a failure of its own has persisted both files, and main has     *)
(* reached its last line unless a download raised.                         *)
C5_FailureFrame ==
    \A n \in AllNames :
        (task[n].pc # "failed" /\ task'[n].pc = "failed") =>
            /\ pc' = pc /\ idx' = idx /\ queue' = queue /\ raw_file' = raw_file
            /\ \A m \in AllNames \ {n} :
                   /\ task'[m] = task[m]
                   /\ available_file'[m] = available_file[m]
                   /\ unavailable_file'[m] = unavailable_file[m]
                   /\ probe_log'[m] = probe_log[m]
                   /\ error_log'[m] = error_log[m]

C5_Outcome ==
    Terminated =>
        /\ pc \in {"done", "crashed", "exit_fetch_failed", "exit_no_links"}
        /\ pc = "crashed" => \E n \in AllNames : download_result[n] = "raised"
        /\ \A n \in Submitted :
               \/ task[n].pc = "failed" /\ error_log[n] # "none"
               \/ /\ task[n].pc = "done"
                  /\ error_log[n] = "none"
                  /\ available_file[n].exists
                  /\ unavailable_file[n].exists

C5_TaskFailureIsolated == [][C5_FailureFrame]_vars /\ []C5_Outcome

\* the run is complete, one task failed and a task submitted with it persisted
C5_Witness ==
    /\ pc = "done"
    /\ \E n, m \in AllNames :
          /\ task[n].pc = "failed"
          /\ task[m].pc = "done"
          /\ available_file[m].exists /\ unavailable_file[m].exists

(* C6: an entry goes to the available partition exactly when its probe   *)
(* completed with status 200; a probe that completed with another status,  *)
(* and one that timed out or could not connect, put it in the unavailable  *)
(* partition.  Stated of the step that logs the probe.                     *)
C6_ProbeStep ==
    \A n \in AllNames :
        Len(probe_log'[n]) = Len(probe_log[n]) + 1 =>
            LET probe == probe_log'[n][Len(probe_log'[n])]
                a == task[n].available_links
                u == task[n].unavailable_links
                a2 == task'[n].available_links
                u2 == task'[n].unavailable_links
            IN  /\ probe.outcome = "200" =>
                       /\ Len(a2) = Len(a) + 1 /\ a2[Len(a2)][2] = probe.url
                       /\ u2 = u
                /\ probe.outcome \in {"other_status", "request_exception"} =>
                       /\ Len(u2) = Len(u) + 1 /\ u2[Len(u2)][2] = probe.url
                       /\ a2 = a
                /\ probe.outcome \in {"200", "other_status", "request_exception"}

C6_Persisted ==
    \A n \in AllNames :
        task[n].pc = "done" =>
            /\ Len(EntriesOf(available_file[n])) =
                   Cardinality({k \in DOMAIN probe_log[n] : probe_log[n][k].outcome = "200"})
            /\ Len(EntriesOf(unavailable_file[n])) =
                   Cardinality({k \in DOMAIN probe_log[n] : probe_log[n][k].outcome # "200"})

C6_AvailableIffSuccess == [][C6_ProbeStep]_vars /\ []C6_Persisted

\* a persisted report after a 200, another status and a failed request
C6_Witness ==
    \E n \in AllNames :
        /\ task[n].pc = "done"
        /\ {probe_log[n][k].outcome : k \in DOMAIN probe_log[n]} =
               {"200", "other_status", "request_exception"}

(* C7: the probe never raises to its caller: whatever a probe did, the     *)
(* remaining URL lines of the playlist are still probed, so a task that    *)
(* read its playlist and did not fail writing has probed every URL line.   *)
C7_ProbeNeverRaises ==
    \A n \in AllNames :
        (task[n].pc \in {"write_available", "write_unavailable", "done", "failed"}
             /\ error_log[n] \notin {"read", "write_available", "write_unavailable"})
            => /\ error_log[n] = "none"
               /\ Len(probe_log[n]) = Len(UrlPositions(raw_file[n].lines))

(* C8: each partition lists its entries in the order in which they were    *)
(* parsed from the playlist.                                               *)
C8_StablePartition ==
    \A n \in Active :
        /\ IsSubsequence(AvailableOf(n), ExpectedEntries(Handled(n)))
        /\ IsSubsequence(UnavailableOf(n), ExpectedEntries(Handled(n)))

\* a persisted partition with two different entries
C8_Witness ==
    \E n \in AllNames :
        /\ task[n].pc = "done"
        /\ Len(EntriesOf(available_file[n])) = 2
        /\ EntriesOf(available_file[n])[1] # EntriesOf(available_file[n])[2]

\* no metadata line lies between URL position j and the URL line before it
NoMetadataSincePreviousUrl(lines, j) ==
    ~\E m \in MetadataPositions(lines) :
        /\ m < j
        /\ \A k \in 1..Len(lines) : (IsUrl(Strip(lines[k])) /\ k < j) => k < m

(* C9: the pending metadata is reset after a URL line: a URL line with no  *)
(* metadata line between it and the previous URL line (or the start of the *)
(* playlist) yields an entry with empty metadata.                          *)
C9_MetadataReset ==
    \A n \in Active :
        LET lines == Handled(n)
            pos == UrlPositions(lines)
            out == Emitted(n)
        IN  /\ Len(out) = Len(pos)
            /\ \A k \in DOMAIN out :
                   NoMetadataSincePreviousUrl(lines, pos[k]) => out[k][1] = <<>>
            /\ (task[n].pc = "loop" /\ lines # <<>> /\ IsUrl(Strip(lines[Len(lines)])))
                   => task[n].current_metadata = <<>>

(* C10: one entry per URL line, in input order, each with the most recent  *)
(* metadata line before its URL line; a metadata line followed by another  *)
(* one or by the end of input is in no entry; other lines change nothing.  *)
C10_Parser ==
    \A n \in Active :
        /\ Emitted(n) = ExpectedEntries(Handled(n))
        /\ Len(probe_log[n]) = Len(UrlPositions(Handled(n)))
        /\ \A k \in DOMAIN probe_log[n] :
               probe_log[n][k].url = Strip(Handled(n)[UrlPositions(Handled(n))[k]])
        /\ task[n].pc = "loop" =>
               task[n].current_metadata = MetadataBefore(Handled(n), Len(Handled(n)) + 1)

\* a persisted report of a playlist with an overwritten metadata line, a
\* line that is neither, and a trailing metadata line
C10_Witness ==
    \E n \in AllNames :
        /\ task[n].pc = "done"
        /\ Len(Emitted(n)) = 1
        /\ Emitted(n)[1][1] # <<>>
        /\ \E j \in MetadataPositions(raw_file[n].lines) :
               /\ j + 1 \in MetadataPositions(raw_file[n].lines)
               /\ Emitted(n)[1][1] = Strip(raw_file[n].lines[j + 1])
               /\ Emitted(n)[1][1] # Strip(raw_file[n].lines[j])

----------------------------------------------------------------------------
\* the fetched document has been scanned
Extracted == pc \notin {"start", "extract", "exit_fetch_failed"}

\* the normalized names of the matching records, in document order
NormalizedNames(rows) == [k \in DOMAIN rows |-> clean_category_name(rows[k].name)]

\* the last position in document order that holds name
LastRecord(names, name) ==
    CHOOSE k \in DOMAIN names :
        /\ names[k] = name
        /\ \A j \in DOMAIN names : names[j] = name => j <= k

(* C11: the extracted mapping has exactly one entry per distinct           *)
(* normalized name of the matching records, with the URL of the last       *)
(* record in document order of that name; a document without a matching    *)
(* record gives the empty mapping and a normal return.                     *)
C11_LastRecordWins ==
    Extracted =>
        LET rows == Matches(readme_content.rows)
            names == NormalizedNames(rows)
        IN  /\ DictKeys(m3u_links) = Range(names)
            /\ Len(m3u_links) = Cardinality(Range(names))
            /\ \A e \in DOMAIN m3u_links :
                   m3u_links[e].url = rows[LastRecord(names, m3u_links[e].name)].url
            /\ rows = <<>> => (m3u_links = <<>> /\ pc = "exit_no_links")

\* two matching records of one normalized name and two URLs gave one entry
C11_Witness ==
    /\ Extracted
    /\ Len(m3u_links) = 1
    /\ LET rows == Matches(readme_content.rows) IN
       /\ Len(rows) = 2
       /\ rows[1].url # rows[2].url
       /\ m3u_links[1].url = rows[2].url

(* C12: a record whose display name normalizes to the empty name is        *)
(* skipped: the empty name is never a key of the mapping, never downloaded *)
(* and never given a processing task.                                      *)
C12_EmptyNameSkipped ==
    /\ <<>> \notin DictKeys(m3u_links)
    /\ download_result[<<>>] = "none"
    /\ task[<<>>].pc = "none"

\* nothing was downloaded, submitted, probed or written
NoOutput ==
    /\ queue = <<>>
    /\ \A n \in AllNames :
          /\ download_result[n] = "none"
          /\ task[n] = IdleFrame
          /\ probe_log[n] = <<>>
          /\ raw_file[n] = NoFile
          /\ available_file[n] = NoFile
          /\ unavailable_file[n] = NoFile

(* C13: when fetching the index document fails (or gives an empty          *)
(* document), or the extracted mapping is empty, the run ends there and    *)
(* nothing is downloaded, submitted, probed or written.                    *)
C13_NoOutputOnEmptyRun ==
    /\ (pc # "start" /\ readme_content.rows = <<>>) =>
           (pc = "exit_fetch_failed" /\ Terminated /\ NoOutput)
    /\ (Extracted /\ m3u_links = <<>>) =>
           (pc = "exit_no_links" /\ Terminated /\ NoOutput)

\* a fetched document without a matching record ended the run
C13_Witness ==
    /\ pc = "exit_no_links"
    /\ readme_content.rows # <<>>
    /\ Matches(readme_content.rows) = <<>>

(* C14: while every worker of the pool is busy, the submission of the next *)
(* task blocks, so no step lengthens the queue of tasks not yet started.   *)
C14_SubmitBlocksWhenSaturated ==
    [][Cardinality(Running) = max_workers => Len(queue') <= Len(queue)]_vars

----------------------------------------------------------------------------
(* clean_category_name on its own: the display name is any concatenation   *)
(* of up to MaxPieces pieces over letters, a digit, the underscore, the    *)
(* space, punctuation and the characters of the entity "&nbsp;".           *)
Pieces ==
    {<<"a">>, <<"1">>, <<"_">>, <<" ">>, <<"!">>, <<"&">>, <<";">>,
     <<"n", "b">>, <<"s", "p">>}

RECURSIVE Concat(_)
Concat(pieces) == IF pieces = <<>> THEN <<>> ELSE Head(pieces) \o Concat(Tail(pieces))

DisplayNames == {Concat(ps) : ps \in SeqsUpTo(Pieces, MaxPieces)}

InitNormalize ==
    /\ \E name \in DisplayNames : index_doc = <<[name |-> name, url |-> "u1"]>>
    /\ lines_left = 0
    /\ faults_left = 0
    /\ pc = "normalize"
    /\ readme_content = None
    /\ m3u_links = <<>>
    /\ idx = 0
    /\ download_result = [n \in AllNames |-> "none"]
    /\ queue = <<>>
    /\ task = [n \in AllNames |-> IdleFrame]
    /\ raw_file = [n \in AllNames |-> NoFile]
    /\ available_file = [n \in AllNames |-> NoFile]
    /\ unavailable_file = [n \in AllNames |-> NoFile]
    /\ probe_log = [n \in AllNames |-> <<>>]
    /\ error_log = [n \in AllNames |-> "none"]

\* clean_category_name(name) of the display name
Normalize ==
    /\ pc = "normalize"
    /\ m3u_links' = <<[name |-> clean_category_name(index_doc[1].name),
                       url |-> index_doc[1].url]>>
    /\ pc' = "normalized"
    /\ UNCHANGED <<index_doc, lines_left, faults_left, readme_content, idx,
                   download_result, queue, task, raw_file, available_file,
                   unavailable_file, probe_log, error_log>>

\* clean_category_name(name) of the normalized name
Renormalize ==
    /\ pc = "normalized"
    /\ m3u_links' = <<[name |-> clean_category_name(m3u_links[1].name),
                       url |-> m3u_links[1].url]>>
    /\ pc' = "renormalized"
    /\ UNCHANGED <<index_doc, lines_left, faults_left, readme_content, idx,
                   download_result, queue, task, raw_file, available_file,
                   unavailable_file, probe_log, error_log>>

NextNormalize == Normalize \/ Renormalize

SpecNormalize == InitNormalize /\ [][NextNormalize]_vars

(* C15: normalizing a normalized name gives the same name, for every       *)
(* display name over the alphabet above.                                   *)
C15_NormalizeIdempotent ==
    [][pc = "normalized" => m3u_links'[1].name = m3u_links[1].name]_vars

\* a name changed by the first normalization (a separator became an
\* underscore, a character was removed) and normalized a second time
C15_Witness ==
    /\ pc = "renormalized"
    /\ "_" \in Range(m3u_links[1].name)
    /\ "_" \notin Range(index_doc[1].name)
    /\ Len(m3u_links[1].name) < Len(index_doc[1].name)

----------------------------------------------------------------------------
(* The runs in which every network call returns or fails and every thread  *)
(* is scheduled: a step that is possible is eventually taken.  The timeout *)
(* arguments of lines 41, 66 and 80 bound each socket operation, not the   *)
(* call, so that every call returns is a hypothesis on the servers.        *)
FairSpec == Spec /\ WF_vars(Next)

\* main has returned or raised, and no task is queued or running
Ended ==
    /\ pc \in {"exit_fetch_failed", "exit_no_links", "done", "crashed"}
    /\ queue = <<>>
    /\ Running = {}

(* C16: every run eventually ends, with no task queued or running.         *)
C16_Terminates == <>[]Ended

\* a run that submitted more tasks than the pool has workers has ended
C16_Witness ==
    /\ Ended
    /\ Cardinality(Finished) > max_workers

----------------------------------------------------------------------------
\* the names main's loop has passed: downloaded, and submitted or skipped
Passed ==
    {m3u_links[k].name : k \in {j \in DOMAIN m3u_links :
                                   j < idx \/ pc \in {"join", "done"}}}

\* the name main's loop is at
Current == m3u_links[idx].name

C17_Submission ==
    /\ \A n \in AllNames :
          /\ task[n].pc # "none" => (download_result[n] = "saved" /\ raw_file[n].exists)
          /\ download_result[n] = "failed" => task[n].pc = "none"
          /\ (n \in Passed /\ download_result[n] = "saved") => task[n].pc # "none"
          /\ Count(queue, n) = (IF task[n].pc = "queued" THEN 1 ELSE 0)
    /\ pc = "download" => task[Current].pc = "none"

C17_Step ==
    \A n \in AllNames :
        /\ (task'[n].pc = "queued" /\ task[n].pc # "queued") => task[n].pc = "none"
        /\ task[n].pc # "none" => raw_file'[n] = raw_file[n]

(* C17: a name's task is submitted exactly once when its download          *)
(* succeeded and never when it failed, and only once the raw file is       *)
(* written: no task exists for a name that is being downloaded, and the    *)
(* raw file of a submitted name does not change.                           *)
C17_SubmittedOnceAfterSaved == [][C17_Step]_vars /\ []C17_Submission

\* a finished run with a failed download without a task and a saved one
\* whose task ran
C17_Witness ==
    /\ pc = "done"
    /\ \E n, m \in AllNames :
          /\ download_result[n] = "failed" /\ task[n].pc = "none"
          /\ download_result[m] = "saved" /\ task[m].pc \in {"done", "failed"}

\* the files a task is reading or writing, and the file main is writing
TaskAccess(n) ==
    IF task[n].pc = "open" THEN {<<"raw", n>>}
    ELSE IF task[n].pc = "write_available" THEN {<<"available", n>>}
    ELSE IF task[n].pc = "write_unavailable" THEN {<<"unavailable", n>>}
    ELSE {}

MainAccess == IF pc = "download" THEN {<<"raw", Current>>} ELSE {}

C18_Disjoint ==
    /\ \A j, k \in DOMAIN m3u_links : m3u_links[j].name = m3u_links[k].name => j = k
    /\ \A n, m \in AllNames : n # m => TaskAccess(n) \cap TaskAccess(m) = {}
    /\ \A n \in AllNames : task[n].pc \notin {"none", "done", "failed"} =>
           <<"raw", n>> \notin MainAccess

C18_Step ==
    \A n \in AllNames :
        /\ raw_file'[n] # raw_file[n] => (<<"raw", n>> \in MainAccess /\ task[n].pc = "none")
        /\ (task'[n].lines # task[n].lines /\ task'[n].pc \notin {"done", "failed"}) =>
               (<<"raw", n>> \in TaskAccess(n) /\ task'[n].lines = raw_file[n].lines)
        /\ available_file'[n] # available_file[n] => <<"available", n>> \in TaskAccess(n)
        /\ unavailable_file'[n] # unavailable_file[n] => <<"unavailable", n>> \in TaskAccess(n)

(* C18: the names of the mapping are pairwise distinct, every file is      *)
(* read or written only by the task of its name or, for the raw file, by   *)
(* main's loop before that task exists: no two tasks, and no task and the  *)
(* loop, are at the same file at the same time.                            *)
C18_NoSharedFile == [][C18_Step]_vars /\ []C18_Disjoint

\* main downloads a playlist while two tasks are at their own files
C18_Witness ==
    /\ pc = "download"
    /\ \E n, m \in AllNames :
          /\ n # m
          /\ task[n].pc = "open"
          /\ task[m].pc \in {"write_available", "write_unavailable"}

----------------------------------------------------------------------------
\* every URL line of the name's raw playlist has been probed
AllProbed(n) == Len(probe_log[n]) = Len(UrlPositions(raw_file[n].lines))

C19_Step ==
    \A n \in AllNames :
        (available_file'[n] # available_file[n] \/ unavailable_file'[n] # unavailable_file[n])
            => (AllProbed(n) /\ task[n].i = Len(raw_file[n].lines) + 1)

C19_Unwritten ==
    \A n \in AllNames :
        (task[n].pc \in {"queued", "open", "loop"} \/ error_log[n] \in {"read", "probe"})
            => (available_file[n] = NoFile /\ unavailable_file[n] = NoFile)

(* C19: a task changes its two output files only when every line of its   *)
(* playlist has been handled and every URL line probed; while it reads and *)
(* probes, and after a failure of reading or of a probe, both files are as *)
(* they were before the task.                                              *)
C19_WritesAfterAllProbes == [][C19_Step]_vars /\ []C19_Unwritten

\* a task that classified an entry and then failed in a later probe
C19_Witness ==
    \E n \in AllNames :
        /\ task[n].pc = "failed"
        /\ error_log[n] = "probe"
        /\ probe_log[n] # <<>>
        /\ available_file[n] = NoFile /\ unavailable_file[n] = NoFile

\* the task is in requests.head for the URL line it is at
Probing(n) == task[n].pc = "loop" /\ IsUrl(Strip(task[n].lines[task[n].i]))

ProbesInFlight == Cardinality({n \in AllNames : Probing(n)})

\* main is in download_m3u_file
DownloadsInFlight == IF pc = "download" THEN 1 ELSE 0

C20_Step ==
    \A n \in AllNames :
        probe_log'[n] # probe_log[n] =>
            /\ Probing(n)
            /\ probe_log'[n] = Append(probe_log[n], probe_log'[n][Len(probe_log'[n])])
            /\ probe_log'[n][Len(probe_log'[n])].url = Strip(task[n].lines[task[n].i])
            /\ Len(probe_log'[n]) = Len(UrlPositions(SubSeq(task[n].lines, 1, task[n].i)))

C20_Bound ==
    /\ ProbesInFlight <= Cardinality(Running)
    /\ ProbesInFlight <= max_workers
    /\ DownloadsInFlight <= 1
    /\ ProbesInFlight + DownloadsInFlight <= max_workers + 1

(* C20: a task has one probe in flight at a time, for its URL lines in     *)
(* parse order, and main one download, so the network calls in flight      *)
(* (downloads plus probes) number at most max_workers + 1.                 *)
C20_CallsInFlight == [][C20_Step]_vars /\ []C20_Bound

\* every worker is in a probe while main downloads the next playlist
C20_Witness == ProbesInFlight = max_workers /\ DownloadsInFlight = 1

====
